---- MODULE Spec2Model ----
(***************************************************************************)
(* A model of the validation engine of go-requiring: the rule registry     *)
(* (RuleSet: Add, Validate, Struct) of src/validator.go and the validator  *)
(* / violation / printer protocol of src/validator.go and                  *)
(* src/unnamed/part_000 (MinLength, MaxLength, Length).                    *)
(***************************************************************************)
EXTENDS Integers, Sequences, FiniteSets, TLC

VARIABLES
    typ,      \* the record type T of Struct[T]
    base,     \* RuleSet.base: the address of the template record v
    rules,    \* RuleSet.rules: rule name -> rule (the nil map is the empty map)
    phase,    \* "building" (inside build) | "built" | "panicked" | "validators"
    call,     \* the last Add call: the field pointed at, the name, the outcome
    given,    \* rule name -> the arguments of the last Add that stored it
    heap,     \* the validator instances, by address (index)
    pc,       \* per goroutine: position in RuleSet.Validate
    rec,      \* per goroutine: the record being validated
    pending,  \* per goroutine: rules the range loop has not visited yet
    errs,     \* per stack frame: the local slice errs of RuleSet.Validate
    result,   \* per goroutine: the error returned by the last Validate
    last,     \* the last direct Validator.Validate call and what it returned
    conf      \* the last WithPrinter or WithPrinterFunc call

vars == <<typ, base, rules, phase, call, given, heap, pc, rec, pending, errs, result, last, conf>>

(***************************************************************************)
(* Bounds of the model.                                                    *)
(***************************************************************************)
\* Validators handed to one Add call.
MaxValidators == 2
\* Code points in a text value handed to a validator directly.
MaxLen == 5
\* Largest threshold given to a factory.
MaxThreshold == 4
\* Validator instances created besides the package variable NotEmpty.
MaxInstances == 2

Names == {"a", "b"}

Goroutines == {"g1", "g2"}

MainGoroutine == "g1"

(***************************************************************************)
(* Text values.  A Go string is a sequence of bytes; text is stored in     *)
(* UTF-8.                                                                  *)
(***************************************************************************)
\* U+0061 (1 byte), U+00E9 (2 bytes), U+65E5 (3 bytes), U+1F600 (4 bytes).
CodePoints == {97, 233, 26085, 128512}

\* The UTF-8 encoding of one code point.
EncodeRune(c) ==
    IF c < 128 THEN <<c>>
    ELSE IF c < 2048 THEN <<192 + (c \div 64), 128 + (c % 64)>>
    ELSE IF c < 65536
         THEN <<224 + (c \div 4096), 128 + ((c \div 64) % 64), 128 + (c % 64)>>
         ELSE <<240 + (c \div 262144), 128 + ((c \div 4096) % 64),
                128 + ((c \div 64) % 64), 128 + (c % 64)>>

RECURSIVE Encode(_)
\* The Go string holding the code points cps.
Encode(cps) == IF cps = <<>> THEN <<>> ELSE EncodeRune(Head(cps)) \o Encode(Tail(cps))

IsCont(s, i) == i <= Len(s) /\ s[i] >= 128 /\ s[i] <= 191

\* The number of bytes the rune decoded at position i of s takes: an
\* invalid or truncated sequence decodes to U+FFFD and takes one byte.
RuneWidth(s, i) ==
    LET b == s[i] IN
    IF b < 128 THEN 1
    ELSE IF b >= 194 /\ b <= 223 /\ IsCont(s, i + 1) THEN 2
    ELSE IF b >= 224 /\ b <= 239 /\ IsCont(s, i + 1) /\ IsCont(s, i + 2)
            /\ (b = 224 => s[i + 1] >= 160) /\ (b = 237 => s[i + 1] <= 159) THEN 3
    ELSE IF b >= 240 /\ b <= 244 /\ IsCont(s, i + 1) /\ IsCont(s, i + 2) /\ IsCont(s, i + 3)
            /\ (b = 240 => s[i + 1] >= 144) /\ (b = 244 => s[i + 1] <= 143) THEN 4
    ELSE 1

RECURSIVE RuneCountFrom(_, _)
RuneCountFrom(s, i) == IF i > Len(s) THEN 0 ELSE 1 + RuneCountFrom(s, i + RuneWidth(s, i))

RuneCountBytes(s) == Len(s)

\* len([]rune(s)): the conversion decodes the bytes of s rune by rune.
RuneCount(s) == RuneCountFrom(s, 1)

(***************************************************************************)
(* Record types and their memory layout.  A struct type is the sequence of *)
(* its field declarations; a field is a text field (a Go string) or a      *)
(* sub-record whose fields are text fields.                                *)
(***************************************************************************)
\* Size in bytes of a string header (data pointer and length) on a 64-bit target.
StringSize == 16

Str(name) == [Name |-> name, Kind |-> "string", Anonymous |-> FALSE, Elem |-> <<>>]

Sub(name, anon, elem) == [Name |-> name, Kind |-> "struct", Anonymous |-> anon, Elem |-> elem]

Inner == <<Str("City"), Str("Zip")>>

\* The record types T that Struct[T] is instantiated with.
RecordTypes ==
    [Flat     |-> <<Str("Name"), Str("Mail")>>,
     Nested   |-> <<Sub("Home", FALSE, <<Str("Street"), Str("Town")>>), Sub("Inner", TRUE, Inner)>>,
     Tagged   |-> <<Sub("Meta", FALSE, <<>>), Str("Name")>>]

TypeNames == DOMAIN RecordTypes

\* unsafe.Sizeof of a field: every field is a multiple of the word size, so
\* no padding is inserted.
SizeOf(f) == IF f.Kind = "string" THEN StringSize ELSE Len(f.Elem) * StringSize

RECURSIVE FieldOffset(_, _)
\* reflect.StructField.Offset of field i of a struct: its offset within the
\* struct that declares it.
FieldOffset(fields, i) ==
    IF i = 1 THEN 0 ELSE FieldOffset(fields, i - 1) + SizeOf(fields[i - 1])

TypeSize(t) == FieldOffset(RecordTypes[t], Len(RecordTypes[t]) + 1)

\* The reflect.StructField of field i of `fields`, reached by index path
\* prefix \o <<i>>.  Index paths are 1-based here, 0-based in Go.
StructField(fields, prefix, i) ==
    [Name      |-> fields[i].Name,
     Kind      |-> fields[i].Kind,
     Anonymous |-> fields[i].Anonymous,
     Offset    |-> FieldOffset(fields, i),
     Index     |-> prefix \o <<i>>]

RECURSIVE WalkFields(_, _, _)
\* reflect.VisibleFields: the fields of the struct in declaration order, each
\* embedded (anonymous) struct field followed by the fields it promotes.  A
\* promoted field keeps the Offset it has within the embedded struct; only
\* its Index is extended.  (No two fields of RecordTypes share a name, so
\* the hiding of shadowed names does not arise.)
WalkFields(fields, prefix, i) ==
    IF i > Len(fields) THEN <<>>
    ELSE <<StructField(fields, prefix, i)>>
         \o (IF fields[i].Anonymous /\ fields[i].Kind = "struct"
             THEN WalkFields(fields[i].Elem, prefix \o <<i>>, 1)
             ELSE <<>>)
         \o WalkFields(fields, prefix, i + 1)

VisibleFieldsOf == [t \in DOMAIN RecordTypes |-> WalkFields(RecordTypes[t], <<>>, 1)]

VisibleFields(t) == VisibleFieldsOf[t]

VisibleIndexes(t) == {VisibleFields(t)[i].Index : i \in 1..Len(VisibleFields(t))}

\* Every index path that denotes a field of t or a field of a sub-record of
\* t: the sub-values &v.F and &v.F.G whose address the caller can take.
Paths(t) ==
    {<<i>> : i \in 1..Len(RecordTypes[t])}
    \cup UNION {{<<i, j>> : j \in 1..Len(RecordTypes[t][i].Elem)} : i \in 1..Len(RecordTypes[t])}

\* The field declaration an index path denotes.
FieldAt(t, path) ==
    IF Len(path) = 1 THEN RecordTypes[t][path[1]]
    ELSE RecordTypes[t][path[1]].Elem[path[2]]

\* The distance in bytes of the sub-value at path from the start of the
\* record: what &v.F (or &v.F.G) minus &v is.
AddressOffset(t, path) ==
    FieldOffset(RecordTypes[t], path[1])
    + (IF Len(path) = 1 THEN 0 ELSE FieldOffset(RecordTypes[t][path[1]].Elem, path[2]))

\* The text fields of t, at any depth.
Leaves(t) == {p \in Paths(t) : FieldAt(t, p).Kind = "string"}

(***************************************************************************)
(* Validators, violations and printers.  A validator instance lives at an  *)
(* address (an index of heap); a violation keeps the address of the        *)
(* validator that produced it (its field rule).  Every validator and every *)
(* violation is written with the same record fields; a field the Go struct *)
(* does not have is 0.                                                     *)
(***************************************************************************)
Nil == [kind |-> "nil"]

\* A run-time panic (a failed type assertion) in place of a returned error.
Panic == [kind |-> "panic"]

NoPrinter == [kind |-> "nil", id |-> ""]

\* Printers written by the caller, and formatting functions of the caller.
CustomPrinters == {[kind |-> "printer", id |-> "P"]}

PrinterFuncs == {"F"}

\* The adapter that makes a Printer of a formatting closure.
printerFunc(fn) == [kind |-> "func", id |-> fn]

NotEmptyValidator == [kind |-> "NotEmpty", min |-> 0, max |-> 0, p |-> NoPrinter]

MinLength(n) == [kind |-> "MinLength", min |-> n, max |-> 0, p |-> NoPrinter]

MaxLength(n) == [kind |-> "MaxLength", min |-> 0, max |-> n, p |-> NoPrinter]

Length(min, max) == [kind |-> "Length", min |-> min, max |-> max, p |-> NoPrinter]

LengthKinds == {"MinLength", "MaxLength", "Length"}

\* A mutation of WithPrinter: the receiver itself is configured and returned.
WithPrinterShared(h, r, p) == [heap |-> [h EXCEPT ![r].p = p], ret |-> r]

\* WithPrinter: rr := *r; rr.p = p; return &rr.  The heap after the call
\* and the address returned.
WithPrinter(h, r, p) == [heap |-> Append(h, [h[r] EXCEPT !.p = p]), ret |-> Len(h) + 1]

\* WithPrinterFunc: the copy carries the adapter around the closure that
\* hands fn the thresholds of the violation.
WithPrinterFunc(h, r, fn) ==
    [heap |-> Append(h, [h[r] EXCEPT !.p = printerFunc(fn)]), ret |-> Len(h) + 1]

\* notEmptyValidator.SetPrinter: f.p = p, on the receiver.
SetPrinter(h, r, p) == [h EXCEPT ![r].p = p]

Violation(kind, value, min, max, r) ==
    [kind |-> kind, Value |-> value, Min |-> min, Max |-> max, rule |-> r]

\* v is a dynamically typed value [Kind, Value]; s := v.(T) panics unless
\* it holds a string.
NotEmptyValidate(h, r, v) ==
    IF v.Kind # "string" THEN Panic
    ELSE IF v.Value = <<>> THEN Violation("RangeMin", v.Value, 1, 0, 0)
    ELSE Nil

MinLengthValidate(h, r, v) ==
    IF v.Kind # "string" THEN Panic
    ELSE IF RuneCount(v.Value) < h[r].min
         THEN Violation("MinLength", v.Value, h[r].min, 0, r)
    ELSE Nil

MaxLengthValidate(h, r, v) ==
    IF v.Kind # "string" THEN Panic
    ELSE IF RuneCount(v.Value) > h[r].max
         THEN Violation("MaxLength", v.Value, 0, h[r].max, r)
    ELSE Nil

LengthValidate(h, r, v) ==
    IF v.Kind # "string" THEN Panic
    ELSE IF RuneCount(v.Value) < h[r].min \/ RuneCount(v.Value) > h[r].max
         THEN Violation("Length", v.Value, h[r].min, h[r].max, r)
    ELSE Nil

\* Validator.Validate on the instance at address r: the method of its
\* dynamic type.
ValidatorValidate(h, r, v) ==
    CASE h[r].kind = "NotEmpty"  -> NotEmptyValidate(h, r, v)
      [] h[r].kind = "MinLength" -> MinLengthValidate(h, r, v)
      [] h[r].kind = "MaxLength" -> MaxLengthValidate(h, r, v)
      [] h[r].kind = "Length"    -> LengthValidate(h, r, v)

\* The thresholds the closure of WithPrinterFunc hands to fn: e.Min, e.Max
\* or both.
FuncArgs(e) ==
    CASE e.kind = "MinLength" -> <<ToString(e.Min)>>
      [] e.kind = "MaxLength" -> <<ToString(e.Max)>>
      [] OTHER                -> <<ToString(e.Min), ToString(e.Max)>>

\* p.Print(&w, &e) for a printer set on a validator: text is a sequence of
\* tokens.  A caller's Printer sees the whole violation, a formatting
\* function only the thresholds.
PrintCustom(p, e) ==
    IF p.kind = "func" THEN <<p.id>> \o FuncArgs(e)
    ELSE <<p.id, e.kind, ToString(e.Min), ToString(e.Max)>>

minLengthViolationPrinter(e) == <<"the length must be no less than ", ToString(e.Min)>>

maxLengthViolationPrinter(e) == <<"the length must be no greater than ", ToString(e.Max)>>

lengthViolationPrinter(e) ==
    <<"the length must be in range(", ToString(e.Min), " ... ", ToString(e.Max), ")">>

rangeMinPrinter(e) == <<"requires">>

MinLengthError(h, e) ==
    IF h[e.rule].p = NoPrinter THEN minLengthViolationPrinter(e) ELSE PrintCustom(h[e.rule].p, e)

MaxLengthError(h, e) ==
    IF h[e.rule].p = NoPrinter THEN maxLengthViolationPrinter(e) ELSE PrintCustom(h[e.rule].p, e)

LengthError(h, e) ==
    IF h[e.rule].p = NoPrinter THEN lengthViolationPrinter(e) ELSE PrintCustom(h[e.rule].p, e)

\* RangeMinViolationError.Error: var p rangeMinPrinter[T]; p.Print(&buf, *e).
RangeMinError(h, e) == rangeMinPrinter(e)

\* e.Error() of a violation, with the validator instances as they are in h.
Error(h, e) ==
    CASE e.kind = "MinLength" -> MinLengthError(h, e)
      [] e.kind = "MaxLength" -> MaxLengthError(h, e)
      [] e.kind = "Length"    -> LengthError(h, e)
      [] e.kind = "RangeMin"  -> RangeMinError(h, e)

\* errors.Join of non-nil errors: nil when there is none.
Join(es) == IF es = <<>> THEN Nil ELSE [kind |-> "join", errs |-> es]

\* A mutation of Wrap: the violation's text without the rule's name.
WrapBare(h, name, err) == [kind |-> "wrap", msg |-> Error(h, err), err |-> err]

\* fmt.Errorf("'%s' %w", r.Name, err): the message is formatted when the
\* error is made.
Wrap(h, name, err) ==
    [kind |-> "wrap", msg |-> <<"'", name, "' ">> \o Error(h, err), err |-> err]

\* A mutation of RuleErrs' use: evaluation stops at the first violation.
FirstOnly(es) == IF es = <<>> THEN <<>> ELSE <<Head(es)>>

RECURSIVE RuleErrs(_, _, _, _)
\* The loop of rule.Validate from validator i on: the slice errs it builds.
\* A panicking validator leaves Panic in it.
RuleErrs(h, r, v, i) ==
    IF i > Len(r.Validators) THEN <<>>
    ELSE LET err == ValidatorValidate(h, r.Validators[i], v) IN
         IF err = Panic THEN <<Panic>>
         ELSE (IF err = Nil THEN <<>> ELSE <<Wrap(h, r.Name, err)>>)
              \o RuleErrs(h, r, v, i + 1)

RuleValidateFirst(h, r, v) ==
    LET es == RuleErrs(h, r, v, 1) IN
    IF es # <<>> /\ es[Len(es)] = Panic THEN Panic ELSE Join(FirstOnly(es))

\* rule.Validate: every validator of the rule on v, the violations joined.
RuleValidate(h, r, v) ==
    LET es == RuleErrs(h, r, v, 1) IN
    IF es # <<>> /\ es[Len(es)] = Panic THEN Panic ELSE Join(es)

(***************************************************************************)
(* The rule registry.                                                      *)
(***************************************************************************)
\* The address the runtime gives the template record v of Struct.
TemplateAddr == 4096

\* The pointers a builder hands to Add: the address of a field of the
\* template or of a field of one of its sub-records, with the path the
\* caller wrote (Add sees the address only), and the address of another
\* variable, which lies behind the template.
PointerOffsets ==
    [t \in TypeNames |->
        {[Off |-> AddressOffset(t, path), Path |-> path] : path \in Paths(t)}
        \cup {[Off |-> TypeSize(t), Path |-> <<>>]}]

Pointers(t, b) == {[Addr |-> b + o.Off, Path |-> o.Path] : o \in PointerOffsets[t]}

\* The validator instances the builders register, and the lists of them
\* one Add call is given.
Pool == <<NotEmptyValidator, MinLength(2)>>

ValidatorLists == UNION {[1..n -> DOMAIN Pool] : n \in 0..MaxValidators}

\* The values of the text fields of the records that are validated.
SampleTexts == {<<>>, <<233>>}

RecordsOf == [t \in TypeNames |-> [Leaves(t) -> {Encode(c) : c \in SampleTexts}]]

Records(t) == RecordsOf[t]

\* RuleSet.offsetOf: pp - bp.
offsetOf(b, p) == p.Addr - b

NoField == [Name |-> "", Kind |-> "panic", Anonymous |-> FALSE, Offset |-> 0, Index |-> <<>>]

\* lookupStructField: the first visible field whose Offset is off; NoField
\* stands for panic("xxx").
lookupStructField(t, off) ==
    LET fs == VisibleFields(t)
        hits == {i \in 1..Len(fs) : fs[i].Offset = off}
    IN  IF hits = {} THEN NoField
        ELSE fs[CHOOSE i \in hits : \A j \in hits : i <= j]

\* A mutation of StoreRule: a name that is registered keeps its rule.
StoreRuleFirst(rs, name, r) ==
    [n \in DOMAIN rs \cup {name} |-> IF n \in DOMAIN rs THEN rs[n] ELSE r]

\* s.rules[name] = &rule{...}
StoreRule(rs, name, r) ==
    [n \in DOMAIN rs \cup {name} |-> IF n = name THEN r ELSE rs[n]]

NewRule(name, vs, f) == [Name |-> name, Validators |-> vs, Offset |-> f.Offset, Index |-> f.Index]

\* RuleSet.Add on the registry (t, b, rs): whether it returns, and the rule
\* storage after it.  The lookup panics before anything is stored.
RuleSetAdd(t, b, rs, p, name, vs) ==
    LET f == lookupStructField(t, offsetOf(b, p)) IN
    IF f = NoField THEN [ok |-> FALSE, rules |-> rs]
    ELSE [ok |-> TRUE, rules |-> StoreRule(rs, name, NewRule(name, vs, f))]

\* reflect.Value.FieldByIndex(index).Interface() on a record r of type t:
\* the dynamically typed value of the field, a string or a sub-record.
FieldByIndex(t, r, index) ==
    IF FieldAt(t, index).Kind = "string"
    THEN [Kind |-> "string", Value |-> r[index]]
    ELSE [Kind |-> "struct",
          Value |-> [j \in 1..Len(FieldAt(t, index).Elem) |-> r[index \o <<j>>]]]

RECURSIVE RangeAll(_, _, _, _, _, _)
\* The range loop of RuleSet.Validate run to its end, the rules taken in one
\* of the orders the map may yield them in.
RangeAll(t, h, rs, r, todo, es) ==
    IF todo = {} THEN Join(es)
    ELSE LET n == CHOOSE m \in todo : TRUE
             err == RuleValidate(h, rs[n], FieldByIndex(t, r, rs[n].Index))
         IN  IF err = Panic THEN Panic
             ELSE RangeAll(t, h, rs, r, todo \ {n}, IF err = Nil THEN es ELSE Append(es, err))

\* RuleSet.Validate as one uninterrupted call on the record r.
RuleSetValidate(t, h, rs, r) == RangeAll(t, h, rs, r, DOMAIN rs, <<>>)

\* v is the record or a pointer to it: p.Kind() == reflect.Pointer => p.Elem().
Indirect(v) == IF v.Kind = "ptr" THEN v.Elem ELSE v.Value

\* A mutation of RangeDone: the loop over the rules ends at the first
\* rule that fails.
RangeDoneFirst(todo, es) == todo = {} \/ es # <<>>

\* Whether the range loop of RuleSet.Validate has ended: every rule of the
\* map has been visited.
RangeDone(todo, es) == todo = {}

\* A mutation of Frame: errs is one variable shared by all calls.
FrameShared(g) == MainGoroutine

\* The stack frame that holds the local variable errs of a Validate call.
Frame(g) == g

NoCall == [Path |-> <<>>, Name |-> "", Outcome |-> "none", Replaced |-> FALSE]

NoRecord == <<>>

NoLast == [Instance |-> 0, Text |-> <<>>, Err |-> Nil, Printer |-> NoPrinter]

NoConf == [From |-> 0, Ret |-> 0, P |-> NoPrinter, Was |-> NotEmptyValidator]

Idle == [g \in Goroutines |-> "idle"]

RegistryInit(t) ==
    /\ typ = t
    /\ base = TemplateAddr
    /\ heap = Pool
    /\ pc = Idle
    /\ rec = [g \in Goroutines |-> NoRecord]
    /\ pending = [g \in Goroutines |-> {}]
    /\ errs = [g \in Goroutines |-> <<>>]
    /\ result = [g \in Goroutines |-> Nil]
    /\ last = NoLast
    /\ conf = NoConf

\* Struct[T]: var s RuleSet; var v T; s.base = &v; build(&s, &v) is entered.
Init ==
    /\ \E t \in TypeNames : RegistryInit(t)
    /\ rules = <<>>
    /\ given = <<>>
    /\ phase = "building"
    /\ call = NoCall

\* The builder calls s.Add(p, name, vs...).
Add(p, name, vs) ==
    /\ phase = "building"
    /\ LET r == RuleSetAdd(typ, base, rules, p, name, vs) IN
       /\ rules' = r.rules
       /\ phase' = IF r.ok THEN "building" ELSE "panicked"
       /\ call' = [Path |-> p.Path, Name |-> name,
                   Outcome |-> IF r.ok THEN "stored" ELSE "panic",
                   Replaced |-> r.ok /\ name \in DOMAIN rules]
       /\ given' = IF r.ok THEN (name :> [Addr |-> p.Addr, Vs |-> vs]) @@ given ELSE given
    /\ UNCHANGED <<typ, base, heap, pc, rec, pending, errs, result, last, conf>>

\* build returns and Struct returns &s: the registry is built.
BuildReturn ==
    /\ phase = "building"
    /\ phase' = "built"
    /\ call' = NoCall
    /\ UNCHANGED <<typ, base, rules, given, heap, pc, rec, pending, errs, result, last, conf>>

\* Goroutine g calls s.Validate(v): p is set and errs is declared.
ValidateCall(g, v) ==
    /\ phase = "built"
    /\ pc[g] \in {"idle", "done"}
    /\ pc' = [pc EXCEPT ![g] = "loop"]
    /\ rec' = [rec EXCEPT ![g] = Indirect(v)]
    /\ pending' = [pending EXCEPT ![g] = DOMAIN rules]
    /\ errs' = [errs EXCEPT ![Frame(g)] = <<>>]
    /\ result' = [result EXCEPT ![g] = Nil]
    /\ UNCHANGED <<typ, base, rules, phase, call, given, heap, last, conf>>

\* One iteration of the range loop, on a rule the map iteration yields in
\* no particular order.
ValidateIter(g) ==
    /\ phase = "built"
    /\ pc[g] = "loop"
    /\ ~RangeDone(pending[g], errs[Frame(g)])
    /\ \E n \in pending[g] :
        LET f == FieldByIndex(typ, rec[g], rules[n].Index)
            err == RuleValidate(heap, rules[n], f)
        IN  /\ pending' = [pending EXCEPT ![g] = @ \ {n}]
            /\ IF err = Panic
               THEN /\ pc' = [pc EXCEPT ![g] = "panic"]
                    /\ phase' = "panicked"
                    /\ errs' = errs
               ELSE /\ pc' = pc
                    /\ phase' = phase
                    /\ errs' = [errs EXCEPT ![Frame(g)] = IF err = Nil THEN @ ELSE Append(@, err)]
    /\ UNCHANGED <<typ, base, rules, call, given, heap, rec, result, last, conf>>

\* return errors.Join(errs...)
ValidateReturn(g) ==
    /\ phase = "built"
    /\ pc[g] = "loop"
    /\ RangeDone(pending[g], errs[Frame(g)])
    /\ pc' = [pc EXCEPT ![g] = "done"]
    /\ result' = [result EXCEPT ![g] = Join(errs[Frame(g)])]
    /\ pending' = [pending EXCEPT ![g] = {}]
    /\ UNCHANGED <<typ, base, rules, phase, call, given, heap, rec, errs, last, conf>>

\* The arguments Validate is given: a record of the type, or a pointer to one.
ArgumentsOf ==
    [t \in TypeNames |->
        {[Kind |-> "struct", Value |-> r] : r \in Records(t)}
        \cup {[Kind |-> "ptr", Elem |-> r] : r \in Records(t)}]

Arguments(t) == ArgumentsOf[t]

Validate(g) ==
    \/ \E v \in Arguments(typ) : ValidateCall(g, v)
    \/ ValidateIter(g)
    \/ ValidateReturn(g)

Build ==
    \/ \E p \in Pointers(typ, base), name \in Names, vs \in ValidatorLists : Add(p, name, vs)
    \/ BuildReturn

\* One goroutine builds the registry and then validates records with it.
Next == Build \/ Validate(MainGoroutine)

Spec == Init /\ [][Next]_vars

(***************************************************************************)
(* A built registry shared by goroutines.  The state after                 *)
(* Struct[T](build) has returned, for the builders that call Add twice.    *)
(***************************************************************************)
RECURSIVE RunBuild(_, _, _, _, _)
\* build(&s, &v): the Add calls of the builder from the i-th on.
RunBuild(t, b, build, i, rs) ==
    IF i > Len(build) THEN [ok |-> TRUE, rules |-> rs]
    ELSE LET r == RuleSetAdd(t, b, rs, build[i].P, build[i].Name, build[i].Vs) IN
         IF r.ok THEN RunBuild(t, b, build, i + 1, r.rules) ELSE r

\* Struct[T]: the registry returned, unless the builder panics.
Struct(t, b, build) == RunBuild(t, b, build, 1, <<>>)

RECURSIVE GivenBy(_, _)
GivenBy(build, i) ==
    IF i = 0 THEN <<>>
    ELSE (build[i].Name :> [Addr |-> build[i].P.Addr, Vs |-> build[i].Vs]) @@ GivenBy(build, i - 1)

ConcurrentTypes == {"Flat", "Tagged"}

AddCalls(t) == [P : Pointers(t, TemplateAddr), Name : Names, Vs : ValidatorLists]

Builders(t) == [1..2 -> AddCalls(t)]

InitConcurrent ==
    /\ \E t \in ConcurrentTypes : \E build \in Builders(t) :
        /\ Struct(t, TemplateAddr, build).ok
        /\ RegistryInit(t)
        /\ rules = Struct(t, TemplateAddr, build).rules
        /\ given = GivenBy(build, Len(build))
    /\ phase = "built"
    /\ call = NoCall

\* Any number of goroutines share the built registry; each validates.
NextConcurrent == \E g \in Goroutines : Validate(g)

SpecConcurrent == InitConcurrent /\ [][NextConcurrent]_vars

(***************************************************************************)
(* The validator protocol used directly.                                   *)
(***************************************************************************)
Thresholds == (-1)..MaxThreshold

\* The validators the factories return.
Factories ==
    {MinLength(n) : n \in Thresholds}
    \cup {MaxLength(n) : n \in Thresholds}
    \cup {Length(min, max) : min \in Thresholds, max \in Thresholds}

\* Every text of at most MaxLen code points.
Texts == UNION {[1..n -> CodePoints] : n \in 0..MaxLen}

ValidatorsInit(h) ==
    /\ typ = "Flat"
    /\ base = TemplateAddr
    /\ rules = <<>>
    /\ given = <<>>
    /\ phase = "validators"
    /\ call = NoCall
    /\ heap = h
    /\ pc = Idle
    /\ rec = [g \in Goroutines |-> NoRecord]
    /\ pending = [g \in Goroutines |-> {}]
    /\ errs = [g \in Goroutines |-> <<>>]
    /\ result = [g \in Goroutines |-> Nil]
    /\ last = NoLast
    /\ conf = NoConf

\* The caller calls Validate on the instance at r with the text cps.
DirectValidate(r, cps) ==
    /\ phase = "validators"
    /\ last' = [Instance |-> r, Text |-> cps,
                Err |-> ValidatorValidate(heap, r, [Kind |-> "string", Value |-> Encode(cps)]),
                Printer |-> heap[r].p]
    /\ UNCHANGED <<typ, base, rules, phase, call, given, heap, pc, rec, pending, errs, result, conf>>

\* One validator from a factory, beside NotEmpty.
InitLength == \E v \in Factories : ValidatorsInit(<<NotEmptyValidator, v>>)

\* Each behaviour validates one text.
NextLength == last = NoLast /\ \E r \in DOMAIN heap, cps \in Texts : DirectValidate(r, cps)

SpecLength == InitLength /\ [][NextLength]_vars

\* The validators the callers that configure printers create.
Configured == {MinLength(2), MaxLength(0), Length(2, 1)}

\* r := MinLength(n), MaxLength(n) or Length(min, max).
New(v) ==
    /\ phase = "validators"
    /\ Len(heap) <= MaxInstances
    /\ heap' = Append(heap, v)
    /\ UNCHANGED <<typ, base, rules, phase, call, given, pc, rec, pending, errs, result, last, conf>>

\* r.WithPrinter(p) on a MinLength, MaxLength or Length validator.
DoWithPrinter(r, p) ==
    /\ phase = "validators"
    /\ Len(heap) <= MaxInstances
    /\ heap[r].kind \in LengthKinds
    /\ heap' = WithPrinter(heap, r, p).heap
    /\ conf' = [From |-> r, Ret |-> WithPrinter(heap, r, p).ret, P |-> p, Was |-> heap[r]]
    /\ UNCHANGED <<typ, base, rules, phase, call, given, pc, rec, pending, errs, result, last>>

\* r.WithPrinterFunc(fn).
DoWithPrinterFunc(r, fn) ==
    /\ phase = "validators"
    /\ Len(heap) <= MaxInstances
    /\ heap[r].kind \in LengthKinds
    /\ heap' = WithPrinterFunc(heap, r, fn).heap
    /\ conf' = [From |-> r, Ret |-> WithPrinterFunc(heap, r, fn).ret, P |-> printerFunc(fn),
                Was |-> heap[r]]
    /\ UNCHANGED <<typ, base, rules, phase, call, given, pc, rec, pending, errs, result, last>>

\* SetPrinter(p) on the notEmptyValidator behind NotEmpty.
DoSetPrinter(r, p) ==
    /\ phase = "validators"
    /\ heap[r].kind = "NotEmpty"
    /\ heap' = SetPrinter(heap, r, p)
    /\ UNCHANGED <<typ, base, rules, phase, call, given, pc, rec, pending, errs, result, last, conf>>

InitValidator == ValidatorsInit(<<NotEmptyValidator>>)

NextValidator ==
    \/ \E v \in Configured : New(v)
    \/ \E r \in DOMAIN heap, p \in CustomPrinters : DoWithPrinter(r, p)
    \/ \E r \in DOMAIN heap, fn \in PrinterFuncs : DoWithPrinterFunc(r, fn)
    \/ \E r \in DOMAIN heap, p \in CustomPrinters \cup {NoPrinter} : DoSetPrinter(r, p)
    \/ \E r \in DOMAIN heap, cps \in SampleTexts : DirectValidate(r, cps)

SpecValidator == InitValidator /\ [][NextValidator]_vars

(***************************************************************************)
(* The claims.                                                             *)
(***************************************************************************)
\* The value Validate hands to the validators of rule n, for the record of
\* goroutine g.
FieldValue(g, n) == FieldByIndex(typ, rec[g], rules[n].Index)

\* What validator i of rule n returns on that value.
ViolationOf(g, n, i) == ValidatorValidate(heap, rules[n].Validators[i], FieldValue(g, n))

\* The (rule, validator) pairs whose validator rejects the rule's field value.
Pairs(g) ==
    UNION {{<<n, i>> : i \in {j \in 1..Len(rules[n].Validators) : ViolationOf(g, n, j) # Nil}}
           : n \in DOMAIN rules}

RECURSIVE Flatten(_)
Flatten(es) == IF es = <<>> THEN <<>> ELSE Head(es).errs \o Flatten(Tail(es))

\* The violations of a result, each as rule.Validate wrapped it.
Wrapped(err) == IF err = Nil THEN <<>> ELSE Flatten(err.errs)

Prefix(n) == <<"'", n, "' ">>

StartsWith(text, pre) == Len(text) >= Len(pre) /\ SubSeq(text, 1, Len(pre)) = pre

\* Two results hold the same violations, in whatever order.
SameViolations(e1, e2) ==
    /\ (e1 = Nil) <=> (e2 = Nil)
    /\ e1 # Nil /\ e2 # Nil =>
        /\ Len(e1.errs) = Len(e2.errs)
        /\ {e1.errs[k] : k \in DOMAIN e1.errs} = {e2.errs[k] : k \in DOMAIN e2.errs}

\* The text of a violation under printer p: p's, or the default of the kind.
Rendered(p, e) ==
    IF p # NoPrinter THEN PrintCustom(p, e)
    ELSE CASE e.kind = "MinLength" -> minLengthViolationPrinter(e)
           [] e.kind = "MaxLength" -> maxLengthViolationPrinter(e)
           [] e.kind = "Length"    -> lengthViolationPrinter(e)
           [] e.kind = "RangeMin"  -> rangeMinPrinter(e)

\* C1: a Validate that returns has evaluated every validator of every rule:
\* its result holds exactly one violation for each (rule, validator) pair
\* whose validator rejects the rule's field value, no other violation, and
\* is nil exactly when no pair fails.
C1_AllViolations ==
    \A g \in Goroutines : pc[g] = "done" =>
        LET ws == Wrapped(result[g]) IN
        /\ (result[g] = Nil) <=> (Pairs(g) = {})
        /\ Len(ws) = Cardinality(Pairs(g))
        /\ \A pr \in Pairs(g) :
            Cardinality({k \in DOMAIN ws : ws[k].err = ViolationOf(g, pr[1], pr[2])})
            = Cardinality({q \in Pairs(g) : ViolationOf(g, q[1], q[2]) = ViolationOf(g, pr[1], pr[2])})

\* C1 witness: a returned result with two failing rules, one of which has
\* two failing validators.
C1_Witness ==
    \E g \in Goroutines :
        /\ pc[g] = "done"
        /\ \E pr \in Pairs(g), q \in Pairs(g), o \in Pairs(g) :
            pr[1] = q[1] /\ pr[2] # q[2] /\ o[1] # pr[1]
        /\ Len(Wrapped(result[g])) >= 3

\* C2 (as claimed): an Add given the pointer to a visible field of the
\* record type stores a rule whose field path denotes that field.
C2_AddStoresPointedField ==
    (call.Outcome # "none" /\ call.Path \in VisibleIndexes(typ))
        => (call.Outcome = "stored" /\ rules[call.Name].Index = call.Path)

\* The offset from the template of the pointer an Add call was given.
PathOffset(t, path) == IF path = <<>> THEN TypeSize(t) ELSE AddressOffset(t, path)

\* No visible field of t lies off bytes from the start of the record.
OffsetOfNoVisibleField(t, off) ==
    \A i \in 1..Len(VisibleFields(t)) : AddressOffset(t, VisibleFields(t)[i].Index) # off

\* C3 (as claimed): an Add whose pointer lies at the offset of no visible
\* field of the record type panics and leaves the rule storage unchanged.
C3_PanicsOffField ==
    [][(call'.Outcome # "none" /\ call' # call
        /\ OffsetOfNoVisibleField(typ, PathOffset(typ, call'.Path)))
       => (phase' = "panicked" /\ rules' = rules)]_vars

\* C4: the registry holds one rule per registered name, and the rule under
\* a name is the one the last Add with that name gave: its name, its
\* validator list and the field its pointer resolved to; the rules under
\* other names are left as their own last Add gave them.
C4_LastAddWins ==
    /\ DOMAIN rules = DOMAIN given
    /\ \A n \in DOMAIN rules :
        LET f == lookupStructField(typ, given[n].Addr - base) IN
        /\ rules[n].Name = n
        /\ rules[n].Validators = given[n].Vs
        /\ rules[n].Index = f.Index
        /\ rules[n].Offset = f.Offset

\* C4 witness: an Add has replaced the rule of its name while a rule under
\* another name is registered.
C4_Witness ==
    /\ call.Outcome = "stored"
    /\ call.Replaced
    /\ \E m \in DOMAIN rules : m # call.Name /\ rules[m].Validators # rules[call.Name].Validators

\* C5: every violation of a returned result is the text of the violation
\* prefixed with the quoted name of the rule that produced it; when exactly
\* one validator of one rule fails, the result holds exactly one violation
\* and its text starts with that rule's name.
C5_Prefixed ==
    \A g \in Goroutines : (pc[g] = "done" /\ result[g] # Nil) =>
        /\ \A k \in DOMAIN result[g].errs : \E n \in DOMAIN rules :
            \A j \in DOMAIN result[g].errs[k].errs :
                LET w == result[g].errs[k].errs[j] IN
                /\ StartsWith(w.msg, Prefix(n))
                /\ w.msg = Prefix(n) \o Error(heap, w.err)
                /\ \E pr \in Pairs(g) : pr[1] = n /\ w.err = ViolationOf(g, n, pr[2])
        /\ Cardinality(Pairs(g)) = 1 =>
            \A pr \in Pairs(g) :
                /\ Len(Wrapped(result[g])) = 1
                /\ StartsWith(Wrapped(result[g])[1].msg, Prefix(pr[1]))

\* C5 witness: a returned result for a record on which exactly one validator
\* of one rule fails, with another rule registered.
C5_Witness ==
    \E g \in Goroutines :
        /\ pc[g] = "done"
        /\ Cardinality(Pairs(g)) = 1
        /\ Cardinality(DOMAIN rules) = 2
        /\ Len(Wrapped(result[g])) = 1

\* C6: with the length counted in code points, MinLength(min) fails iff the
\* length is less than min, MaxLength(max) iff it is greater than max, and
\* Length(min, max) iff it is outside [min, max].
C6_LengthInCodePoints ==
    last.Instance # 0 =>
        LET n == Len(last.Text)
            v == heap[last.Instance]
            fails == last.Err # Nil
        IN  /\ v.kind = "MinLength" => (fails <=> n < v.min)
            /\ v.kind = "MaxLength" => (fails <=> n > v.max)
            /\ v.kind = "Length" => (fails <=> (n < v.min \/ n > v.max))

\* C6 witness: Length(2, 4) accepts a text of 4 code points that takes more
\* than 4 bytes.
C6_Witness ==
    /\ last.Instance # 0
    /\ heap[last.Instance] = Length(2, 4)
    /\ Len(last.Text) = 4
    /\ Len(Encode(last.Text)) > 4
    /\ last.Err = Nil

\* C7: WithPrinter and WithPrinterFunc return another instance with the
\* receiver's thresholds and the given printer and leave the receiver as it
\* was; a violation of a length validator renders, at any later time, with
\* the printer its validator had when it produced the violation.
C7_CopyOnConfigure ==
    /\ conf # NoConf =>
        /\ conf.Ret # conf.From
        /\ heap[conf.From] = conf.Was
        /\ heap[conf.Ret] = [conf.Was EXCEPT !.p = conf.P]
    /\ (last.Err # Nil /\ last.Err.kind \in LengthKinds) =>
        Error(heap, last.Err) = Rendered(last.Printer, last.Err)

\* C7 witness: the caller holds a violation the original instance produced
\* while a configured copy of that instance exists; it renders with the
\* default printer.
C7_Witness ==
    /\ conf # NoConf
    /\ last.Instance = conf.From
    /\ last.Err # Nil
    /\ conf.Was.p = NoPrinter
    /\ heap[conf.Ret].p # NoPrinter
    /\ Error(heap, last.Err) = Rendered(NoPrinter, last.Err)

\* C8 (as claimed): the text of a violation of any kind is rendered by the
\* custom printer its validator carries when one is set, and by the default
\* printer of the kind otherwise.
C8_CustomPrinterUsed ==
    (last.Err # Nil /\ heap[last.Instance].p = last.Printer) =>
        Error(heap, last.Err) = Rendered(last.Printer, last.Err)

\* C9: a step of a Validate call on a built registry leaves the rule
\* storage, the template's address and type, the validators and the record
\* being validated as they are, and a call that returns (or panics) among
\* concurrent calls returns what it would return run alone.
C9_ReadOnly ==
    [][/\ rules' = rules /\ typ' = typ /\ base' = base /\ heap' = heap
       /\ \A g \in Goroutines : pc[g] = "loop" => rec'[g] = rec[g]
       /\ \A g \in Goroutines : (pc[g] = "loop" /\ pc'[g] = "done") =>
            SameViolations(result'[g], RuleSetValidate(typ, heap, rules, rec[g]))
       /\ \A g \in Goroutines : (pc[g] = "loop" /\ pc'[g] = "panic") =>
            RuleSetValidate(typ, heap, rules, rec[g]) = Panic]_vars

\* C9 witness: two calls are in their loops at once, each with a violation
\* collected and a rule still to visit.
C9_Witness ==
    \A g \in Goroutines :
        /\ pc[g] = "loop"
        /\ errs[g] # <<>>
        /\ pending[g] # {}

\* C10: two Validate calls on the same registry and equal records return
\* the same set of violations, whatever order the rules were visited in.
C10_Idempotent ==
    \A g1 \in Goroutines, g2 \in Goroutines :
        (pc[g1] = "done" /\ pc[g2] = "done" /\ rec[g1] = rec[g2])
            => SameViolations(result[g1], result[g2])

\* C10 witness: two calls on equal records have returned their violations
\* in different orders.
C10_Witness ==
    \E g1 \in Goroutines, g2 \in Goroutines :
        /\ pc[g1] = "done" /\ pc[g2] = "done"
        /\ rec[g1] = rec[g2]
        /\ result[g1] # Nil
        /\ result[g1] # result[g2]

====
